---- MODULE Spec2Model ----
(***************************************************************************)
(* The typed value codec of the bytecode crate: the OpCode and Type tag    *)
(* registries (opcode.rs, types.rs) and the Value <-> Vec<u8> encoding     *)
(* (values.rs).                                                            *)
(*                                                                         *)
(* Representation.  Integers wider than TLC's machine integers are kept    *)
(* as little-endian sequences of 16-bit limbs: an isize has UsizeLimbs     *)
(* limbs (two's complement), an i64 or the bits of an f64 have four, a u32 *)
(* has two.  Lengths are four-limb naturals.  A byte buffer (Vec<u8>, the  *)
(* bytes of a String) is a record [head, unit, reps] standing for the      *)
(* bytes of head followed by reps copies of unit, so that buffers of 2^32  *)
(* bytes and more are values the model can hold; reps is zero (and unit    *)
(* empty) for an ordinary, fully written out buffer.                       *)
(***************************************************************************)
EXTENDS Integers, Sequences, FiniteSets, TLC

VARIABLES usize_bits, overflow_checks, pc, val, buf, byte, src, res, op

vars == <<usize_bits, overflow_checks, pc, val, buf, byte, src, res, op>>

(***************************************************************************)
(* Bounds of the model.                                                    *)
(***************************************************************************)
\* longest run of freely chosen sample bytes in an input buffer or string
MaxHead == 2

(***************************************************************************)
(* Limb arithmetic.                                                        *)
(***************************************************************************)
Base == 2^16

Limb == 0 .. (Base - 1)

Byte == 0 .. 255

Zero64 == <<0, 0, 0, 0>>

\* the four-limb natural of a small number
Nat64(n) == <<n % Base, (n \div Base) % Base, 0, 0>>

\* a + b + c over limb sequences of equal length; the carry out is appended
RECURSIVE AddC(_, _, _)
AddC(a, b, c) ==
    IF a = <<>> THEN <<c>>
    ELSE LET s == Head(a) + Head(b) + c
         IN  <<s % Base>> \o AddC(Tail(a), Tail(b), s \div Base)

\* a - b - c over limb sequences of equal length; the borrow out is appended
RECURSIVE SubB(_, _, _)
SubB(a, b, c) ==
    IF a = <<>> THEN <<c>>
    ELSE LET d == Head(a) - Head(b) - c
         IN  <<d % Base>> \o SubB(Tail(a), Tail(b), IF d < 0 THEN 1 ELSE 0)

Add64(a, b) == SubSeq(AddC(a, b, 0), 1, 4)

Sub64(a, b) == SubSeq(SubB(a, b, 0), 1, 4)

\* a < b for four-limb naturals: the subtraction borrows
Less64(a, b) == SubB(a, b, 0)[5] = 1

\* n copies of a four-limb natural added up (n small)
RECURSIVE Times64(_, _)
Times64(n, a) == IF n = 0 THEN Zero64 ELSE Add64(a, Times64(n - 1, a))

\* sign extension of a two's complement limb sequence to n limbs
SignExtend(w, n) ==
    LET fill == IF w[Len(w)] >= Base \div 2 THEN Base - 1 ELSE 0
    IN  w \o [i \in 1 .. (n - Len(w)) |-> fill]

\* truncation to the low n limbs
Truncate(w, n) == SubSeq(w, 1, n)

\* to_le_bytes: every limb gives its low byte, then its high byte
RECURSIVE ToLeBytes(_)
ToLeBytes(w) ==
    IF w = <<>> THEN <<>>
    ELSE <<Head(w) % 256, Head(w) \div 256>> \o ToLeBytes(Tail(w))

\* from_le_bytes: the inverse, over an even number of bytes
RECURSIVE FromLeBytes(_)
FromLeBytes(bs) ==
    IF bs = <<>> THEN <<>>
    ELSE <<bs[1] + 256 * bs[2]>> \o FromLeBytes(SubSeq(bs, 3, Len(bs)))

(***************************************************************************)
(* Byte buffers.                                                           *)
(***************************************************************************)
Plain(bs) == [head |-> bs, unit |-> <<>>, reps |-> Zero64]

\* Vec::len, as a four-limb natural
BLen(b) == Add64(Nat64(Len(b.head)), Times64(Len(b.unit), b.reps))

BIsEmpty(b) == BLen(b) = Zero64

\* b[i], i >= 1 small, for a buffer of at least i bytes
BNth(b, i) ==
    IF i <= Len(b.head) THEN b.head[i]
    ELSE b.unit[((i - Len(b.head) - 1) % Len(b.unit)) + 1]

\* the first k bytes, written out, of a buffer of at least k bytes
BTake(b, k) == [i \in 1 .. k |-> BNth(b, i)]

\* &b[k..], for a buffer of at least k bytes
BDrop(b, k) ==
    IF k <= Len(b.head) THEN [b EXCEPT !.head = SubSeq(b.head, k + 1, Len(b.head))]
    ELSE LET over == k - Len(b.head)
             u    == Len(b.unit)
             used == (over + u - 1) \div u
             rest == over % u
         IN  [head |-> IF rest = 0 THEN <<>> ELSE SubSeq(b.unit, rest + 1, u),
              unit |-> b.unit,
              reps |-> Sub64(b.reps, Nat64(used))]

\* bs followed by b
BCons(bs, b) == [b EXCEPT !.head = bs \o b.head]

(***************************************************************************)
(* Results of the fallible conversions.                                    *)
(***************************************************************************)
Ok(v) == [kind |-> "Ok", value |-> v]

Err(e) == [kind |-> "Err", error |-> e]

\* the call does not return: the thread panics
Panic == [kind |-> "Panic"]

IsOk(r) == r.kind = "Ok"

IsErr(r) == r.kind = "Err"

InvalidOpCode(b) == [e |-> "InvalidOpCode", byte |-> b]

InvalidType(b) == [e |-> "InvalidType", byte |-> b]

\* ValueError::Type(#[from] TypeError)
TypeErr(inner) == [e |-> "Type", inner |-> inner]

NoTag == [e |-> "NoTag"]

IncompatibleSize == [e |-> "IncompatibleSize"]

InvalidConversion(f, t) == [e |-> "InvalidConversion", from |-> f, to |-> t]

(***************************************************************************)
(* Instruction tag registry (opcode.rs).                                   *)
(***************************************************************************)
OpCode == {"Constant", "Negate", "Add", "Subtract", "Multiply", "Divide", "Return"}

\* `o as u8`: the discriminants of the enum
OpCodeAsU8(o) ==
    CASE o = "Constant" -> 16
      [] o = "Negate"   -> 17
      [] o = "Add"      -> 18
      [] o = "Subtract" -> 19
      [] o = "Multiply" -> 20
      [] o = "Divide"   -> 21
      [] o = "Return"   -> 22

\* mutant: the band is read one tag too wide and Return is taken for 0x17 as well
OpCodeTryFromWide(value) ==
    CASE value = 16 -> Ok("Constant")
      [] value = 17 -> Ok("Negate")
      [] value = 18 -> Ok("Add")
      [] value = 19 -> Ok("Subtract")
      [] value = 20 -> Ok("Multiply")
      [] value = 21 -> Ok("Divide")
      [] value = 22 -> Ok("Return")
      [] value = 23 -> Ok("Return")
      [] OTHER      -> Err(InvalidOpCode(value))

\* mutant: two arms of the match are swapped
OpCodeTryFromSwapped(value) ==
    CASE value = 16 -> Ok("Constant")
      [] value = 17 -> Ok("Negate")
      [] value = 18 -> Ok("Subtract")
      [] value = 19 -> Ok("Add")
      [] value = 20 -> Ok("Multiply")
      [] value = 21 -> Ok("Divide")
      [] value = 22 -> Ok("Return")
      [] OTHER      -> Err(InvalidOpCode(value))

\* impl TryFrom<u8> for OpCode
OpCodeTryFrom(value) ==
    CASE value = 16 -> Ok("Constant")
      [] value = 17 -> Ok("Negate")
      [] value = 18 -> Ok("Add")
      [] value = 19 -> Ok("Subtract")
      [] value = 20 -> Ok("Multiply")
      [] value = 21 -> Ok("Divide")
      [] value = 22 -> Ok("Return")
      [] OTHER      -> Err(InvalidOpCode(value))

(***************************************************************************)
(* Value type registry (types.rs).                                         *)
(***************************************************************************)
Type == {"Int", "Float", "Bool", "Str", "Char"}

\* `t as u8`: the discriminants of the enum
TypeAsU8(t) ==
    CASE t = "Int"   -> 32
      [] t = "Float" -> 33
      [] t = "Bool"  -> 34
      [] t = "Str"   -> 35
      [] t = "Char"  -> 36

\* impl From<Value> for Type: one arm per variant
TypeOf(value) ==
    CASE value.variant = "Int"   -> "Int"
      [] value.variant = "Float" -> "Float"
      [] value.variant = "Bool"  -> "Bool"
      [] value.variant = "Str"   -> "Str"
      [] value.variant = "Char"  -> "Char"

\* impl TryFrom<u8> for Type
TypeTryFrom(value) ==
    CASE value = 32 -> Ok("Int")
      [] value = 33 -> Ok("Float")
      [] value = 34 -> Ok("Bool")
      [] value = 35 -> Ok("Str")
      [] value = 36 -> Ok("Char")
      [] OTHER      -> Err(InvalidType(value))

(***************************************************************************)
(* Values (values.rs).                                                     *)
(***************************************************************************)
\* isize: limbs of the platform's width
IntV(limbs) == [variant |-> "Int", payload |-> limbs]

\* f64, by its 64 bits
FloatV(bits) == [variant |-> "Float", payload |-> bits]

BoolV(b) == [variant |-> "Bool", payload |-> b]

\* String, by its UTF-8 bytes
StrV(bytes) == [variant |-> "Str", payload |-> bytes]

\* char, by its scalar value
CharV(scalar) == [variant |-> "Char", payload |-> scalar]

UsizeLimbs == usize_bits \div 16

\* usize addition: the mathematical sum does not fit / the wrapped sum
UsizeAdd(a, b) ==
    LET s == AddC(a, b, 0)
    IN  IF usize_bits = 64
        THEN [overflow |-> s[5] # 0, value |-> SubSeq(s, 1, 4)]
        ELSE [overflow |-> s[3] # 0 \/ s[4] # 0 \/ s[5] # 0,
              value    |-> <<s[1], s[2], 0, 0>>]

\* `x as usize` for a u32 x: zero extension (usize has 32 or 64 bits)
U32AsUsize(w) == w \o <<0, 0>>

\* `n as u32` for a usize n: the low 32 bits
UsizeAsU32(n) == Truncate(n, 2)

\* isize::MAX + 1: no Vec or String has a capacity of that many bytes
CapacityLimit(bits) ==
    IF bits = 64 THEN <<0, 0, 0, Base \div 2>> ELSE <<0, Base \div 2, 0, 0>>

\* an allocation of n bytes is one the target admits
Fits(n) == Less64(n, CapacityLimit(usize_bits))

(***************************************************************************)
(* String::from_utf8_lossy (values.rs:160), as the standard library scans: *)
(* the longest valid run is copied, every maximal invalid part becomes one *)
(* U+FFFD.                                                                 *)
(***************************************************************************)
\* U+FFFD in UTF-8
Replacement == <<239, 191, 189>>

\* the byte at i, or 0 past the end
SafeGet(bs, i) == IF i <= Len(bs) THEN bs[i] ELSE 0

IsCont(b) == b >= 128 /\ b <= 191

\* the length a lead byte announces, 0 for a byte that cannot lead
Utf8CharWidth(b) ==
    CASE b < 128             -> 1
      [] b >= 194 /\ b <= 223 -> 2
      [] b >= 224 /\ b <= 239 -> 3
      [] b >= 240 /\ b <= 244 -> 4
      [] OTHER               -> 0

\* the second byte admitted after a three- or four-byte lead
SecondOk(lead, b) ==
    CASE lead = 224                -> b >= 160 /\ b <= 191
      [] lead >= 225 /\ lead <= 236 -> IsCont(b)
      [] lead = 237                -> b >= 128 /\ b <= 159
      [] lead >= 238 /\ lead <= 239 -> IsCont(b)
      [] lead = 240                -> b >= 144 /\ b <= 191
      [] lead >= 241 /\ lead <= 243 -> IsCont(b)
      [] lead = 244                -> b >= 128 /\ b <= 143
      [] OTHER                     -> FALSE

\* the first character of bs: whether it is valid, and the bytes it takes
FirstChunk(bs) ==
    LET b == bs[1]
        w == Utf8CharWidth(b)
    IN  CASE w = 1 -> [valid |-> TRUE, len |-> 1]
          [] w = 2 -> IF IsCont(SafeGet(bs, 2))
                      THEN [valid |-> TRUE, len |-> 2]
                      ELSE [valid |-> FALSE, len |-> 1]
          [] w = 3 -> IF ~SecondOk(b, SafeGet(bs, 2)) THEN [valid |-> FALSE, len |-> 1]
                      ELSE IF ~IsCont(SafeGet(bs, 3)) THEN [valid |-> FALSE, len |-> 2]
                      ELSE [valid |-> TRUE, len |-> 3]
          [] w = 4 -> IF ~SecondOk(b, SafeGet(bs, 2)) THEN [valid |-> FALSE, len |-> 1]
                      ELSE IF ~IsCont(SafeGet(bs, 3)) THEN [valid |-> FALSE, len |-> 2]
                      ELSE IF ~IsCont(SafeGet(bs, 4)) THEN [valid |-> FALSE, len |-> 3]
                      ELSE [valid |-> TRUE, len |-> 4]
          [] OTHER -> [valid |-> FALSE, len |-> 1]

RECURSIVE LossySeq(_)
LossySeq(bs) ==
    IF bs = <<>> THEN <<>>
    ELSE LET c == FirstChunk(bs)
             rest == LossySeq(SubSeq(bs, c.len + 1, Len(bs)))
         IN  IF c.valid THEN SubSeq(bs, 1, c.len) \o rest ELSE Replacement \o rest

\* n copies of unit, written out
RECURSIVE Repeat(_, _)
Repeat(unit, n) == IF n = 0 THEN <<>> ELSE unit \o Repeat(unit, n - 1)

\* fewer than 2^16 copies of the unit
Short(b) == b.reps[2] = 0 /\ b.reps[3] = 0 /\ b.reps[4] = 0

\* the text from_utf8_lossy builds.  A short buffer is scanned written out.
\* In a long one the repeated unit starts with a byte that is no continuation
\* byte, so the scan of the head ends where the units begin and every unit
\* is scanned alike.
LossyText(b) ==
    IF Short(b) THEN Plain(LossySeq(b.head \o Repeat(b.unit, b.reps[1])))
    ELSE [head |-> LossySeq(b.head), unit |-> LossySeq(b.unit), reps |-> b.reps]

\* String::with_capacity(n), then push_str up to l bytes: the capacity grows
\* to twice what it was (l <= 3n needs at most two growths), and a capacity
\* past isize::MAX is the panic "capacity overflow"
GrowthOverflows(n, l) ==
    LET twice == Add64(n, n)
        fourfold == Add64(twice, twice)
    IN  \/ Less64(n, l) /\ ~Fits(twice)
        \/ Less64(twice, l) /\ ~Fits(fourfold)

\* String::from_utf8_lossy(&value[5..]): the text, unless building it panics
FromUtf8Lossy(b) ==
    LET text == LossyText(b)
    IN  IF GrowthOverflows(BLen(b), BLen(text)) THEN Panic ELSE Ok(text)

\* the bytes are valid UTF-8: the scan meets no invalid part
RECURSIVE ValidSeq(_)
ValidSeq(bs) ==
    IF bs = <<>> THEN TRUE
    ELSE LET c == FirstChunk(bs)
         IN  c.valid /\ ValidSeq(SubSeq(bs, c.len + 1, Len(bs)))

(***************************************************************************)
(* Narrowing extraction (values.rs:62-88).                                 *)
(***************************************************************************)
\* mutant: the error names the requested type twice
IsizeTryFromBlind(value) ==
    IF value.variant = "Int" THEN Ok(value.payload)
    ELSE Err(InvalidConversion("Int", "Int"))

\* impl TryFrom<Value> for isize
IsizeTryFrom(value) ==
    IF value.variant = "Int" THEN Ok(value.payload)
    ELSE Err(InvalidConversion(TypeOf(value), "Int"))

\* impl TryFrom<Value> for f64
F64TryFrom(value) ==
    IF value.variant = "Float" THEN Ok(value.payload)
    ELSE Err(InvalidConversion(TypeOf(value), "Float"))

(***************************************************************************)
(* Canonical encoding (values.rs:90-110).                                  *)
(***************************************************************************)
\* impl From<Value> for Vec<u8>: the buffer, or Panic where the Vec cannot grow
Encode(value) ==
    LET tag == TypeAsU8(TypeOf(value))
    IN  CASE value.variant = "Int" ->
               \* (val as i64).to_le_bytes()
               Plain(<<tag>> \o ToLeBytes(SignExtend(value.payload, 4)))
          [] value.variant = "Float" ->
               Plain(<<tag>> \o ToLeBytes(value.payload))
          [] value.variant = "Bool" ->
               Plain(<<tag, IF value.payload THEN 1 ELSE 0>>)
          [] value.variant = "Str" ->
               \* let len = bytes.len() as u32
               LET bytes == value.payload
                   len   == UsizeAsU32(BLen(bytes))
               IN  \* extend_from_slice(bytes) reserves 5 + bytes.len()
                   IF ~Fits(Add64(Nat64(5), BLen(bytes))) THEN Panic
                   ELSE BCons(<<tag>> \o ToLeBytes(len), bytes)
          [] value.variant = "Char" ->
               \* val as u8
               Plain(<<tag, value.payload % 256>>)

(***************************************************************************)
(* Canonical decoding (values.rs:112-172).                                 *)
(***************************************************************************)
\* the arm of the match for a resolved tag
DecodeAs(type, value, data_len) ==
    CASE type = "Int" ->
           IF data_len # Nat64(8) THEN Err(IncompatibleSize)
           ELSE \* i64::from_le_bytes(slice) as isize
                Ok(IntV(Truncate(FromLeBytes(BTake(BDrop(value, 1), 8)), UsizeLimbs)))
      [] type = "Float" ->
           IF data_len # Nat64(8) THEN Err(IncompatibleSize)
           ELSE Ok(FloatV(FromLeBytes(BTake(BDrop(value, 1), 8))))
      [] type = "Bool" ->
           IF data_len # Nat64(1) THEN Err(IncompatibleSize)
           ELSE Ok(BoolV(BNth(value, 2) # 0))
      [] type = "Str" ->
           IF Less64(data_len, Nat64(4)) THEN Err(IncompatibleSize)
           ELSE LET len_slice == BTake(BDrop(value, 1), 4)
                    len == U32AsUsize(FromLeBytes(len_slice))
                    sum == UsizeAdd(len, Nat64(4))
                IN  IF sum.overflow /\ overflow_checks THEN Panic
                    ELSE IF data_len # sum.value THEN Err(IncompatibleSize)
                    ELSE LET str == FromUtf8Lossy(BDrop(value, 5))
                         IN  IF IsOk(str) THEN Ok(StrV(str.value)) ELSE Panic
      [] type = "Char" ->
           IF data_len # Nat64(1) THEN Err(IncompatibleSize)
           ELSE \* value[1] as char
                Ok(CharV(BNth(value, 2)))

\* mutant: a buffer without payload is rejected before its tag is resolved
DecodeSizeFirst(value) ==
    IF BIsEmpty(value) THEN Err(NoTag)
    ELSE LET tag == BNth(value, 1)
             data_len == Sub64(BLen(value), Nat64(1))
             type == TypeTryFrom(tag)
         IN  IF data_len = Zero64 THEN Err(IncompatibleSize)
             ELSE IF IsErr(type) THEN Err(TypeErr(type.error))
             ELSE DecodeAs(type.value, value, data_len)

\* impl TryFrom<Vec<u8>> for Value
Decode(value) ==
    IF BIsEmpty(value) THEN Err(NoTag)
    ELSE LET tag == BNth(value, 1)
             data_len == Sub64(BLen(value), Nat64(1))
             type == TypeTryFrom(tag)
         IN  IF IsErr(type) THEN Err(TypeErr(type.error))
             ELSE DecodeAs(type.value, value, data_len)

(***************************************************************************)
(* Inputs.                                                                 *)
(***************************************************************************)
\* NUL, 'A', a continuation byte, a two-byte lead, a byte no UTF-8 text holds
ByteSample == {0, 65, 128, 195, 255}

\* tags in, next to and far from the two bands
TagSample == {16, 31, 32, 33, 34, 35, 36, 37, 255}

\* u32 length prefixes, little-endian: 0, 1, 2, 3, 2^30, 2^31, 2^32 - 4, 2^32 - 1
QuadSample ==
    {<<0, 0, 0, 0>>, <<1, 0, 0, 0>>, <<2, 0, 0, 0>>, <<3, 0, 0, 0>>,
     <<0, 0, 0, 64>>, <<0, 0, 0, 128>>, <<252, 255, 255, 255>>, <<255, 255, 255, 255>>}

\* second halves of eight-byte payloads
MidSample == {<<>>, <<0, 0, 0, 128>>, <<255, 255, 255, 255>>}

LimbSample == {0, 1, Base \div 2, Base - 1}

\* the bits of NaN, +inf, -inf and 1.0, next to the sampled limbs
FloatSample ==
    [1 .. 4 -> LimbSample]
        \cup {<<0, 0, 0, 32760>>, <<0, 0, 0, 32752>>, <<0, 0, 0, 65520>>, <<0, 0, 0, 16368>>}

\* scalar values: below and above 0xFF, around the surrogates, the last one
CharSample == {0, 65, 255, 256, 321, 55295, 57344, 1114111}

\* 2^30, 2^31 and 2^32
Pow30 == <<0, Base \div 4, 0, 0>>

Pow31 == <<0, Base \div 2, 0, 0>>

Pow32 == <<0, 0, 1, 0>>

Heads == UNION {[1 .. k -> ByteSample] : k \in 0 .. MaxHead}

\* long tails: 2^30, 2^31 or 2^32 copies of 'A' or of 0xFF
Tails ==
    {[unit |-> <<>>, reps |-> Zero64]}
        \cup {[unit |-> <<u>>, reps |-> n] : u \in {65, 255}, n \in {Pow30, Pow31, Pow32}}

\* the tails of Strings: also the longest text of a 32-bit target, 2^31 - 1 'A'
StringTails == Tails \cup {[unit |-> <<65>>, reps |-> Sub64(Pow31, Nat64(1))]}

\* a Vec<u8> holds at most isize::MAX bytes
Feasible(b, bits) == Less64(BLen(b), CapacityLimit(bits))

Payloads ==
    {[head |-> pre \o mid \o h, unit |-> t.unit, reps |-> t.reps] :
        pre \in {<<>>} \cup QuadSample, mid \in MidSample, h \in Heads, t \in Tails}

Buffers(bits) ==
    {b \in {Plain(<<>>)} \cup {BCons(<<tag>>, p) : tag \in TagSample, p \in Payloads} :
        Feasible(b, bits)}

\* the Strings: valid UTF-8, short or long
Strings(bits) ==
    {b \in {[head |-> h, unit |-> t.unit, reps |-> t.reps] : h \in Heads, t \in StringTails} :
        ValidSeq(b.head) /\ ValidSeq(b.unit) /\ Feasible(b, bits)}

Values(bits) ==
    {IntV(w) : w \in [1 .. (bits \div 16) -> LimbSample]}
        \cup {FloatV(w) : w \in FloatSample}
        \cup {BoolV(b) : b \in BOOLEAN}
        \cup {StrV(b) : b \in Strings(bits)}
        \cup {CharV(c) : c \in CharSample}

(***************************************************************************)
(* The state machine: an input is drawn, the operations are applied to it. *)
(***************************************************************************)
NoValue == [variant |-> "None"]

NoBuffer == [none |-> TRUE]

NoResult == [kind |-> "None"]

\* outside 0 .. 255
NoByte == 0 - 1

\* what the current buffer or byte was made from, and where that came from
NoSource == [value |-> NoValue, from |-> "none"]

Init ==
    /\ usize_bits \in {32, 64}
    /\ overflow_checks \in BOOLEAN
    /\ res = NoResult
    /\ op = "init"
    /\ \/ /\ pc = "value"
          /\ val \in Values(usize_bits)
          /\ buf = NoBuffer /\ byte = NoByte /\ src = NoSource
       \/ /\ pc = "bytes"
          /\ buf \in Buffers(usize_bits)
          /\ val = NoValue /\ byte = NoByte /\ src = NoSource
       \/ /\ pc = "byte"
          /\ byte \in Byte
          /\ val = NoValue /\ buf = NoBuffer /\ src = NoSource
       \/ /\ pc = "opcode"
          /\ src \in {[value |-> o, from |-> "opcode"] : o \in OpCode}
          /\ val = NoValue /\ buf = NoBuffer /\ byte = NoByte
       \/ /\ pc = "type"
          /\ src \in {[value |-> t, from |-> "type"] : t \in Type}
          /\ val = NoValue /\ buf = NoBuffer /\ byte = NoByte

\* let bytes: Vec<u8> = value.into()
DoEncode ==
    /\ pc = "value"
    /\ LET out == Encode(val)
       IN  IF out = Panic
           THEN buf' = NoBuffer /\ res' = Panic /\ pc' = "panicked"
           ELSE buf' = out /\ res' = NoResult /\ pc' = "bytes"
    /\ src' = [value |-> val, from |-> IF op = "init" THEN "input" ELSE "decoded"]
    /\ val' = NoValue
    /\ op' = "encode"
    /\ UNCHANGED <<usize_bits, overflow_checks, byte>>

\* Value::try_from(bytes)
DoDecode ==
    /\ pc = "bytes"
    /\ res' = Decode(buf)
    /\ val' = IF IsOk(res') THEN res'.value ELSE NoValue
    /\ pc' = CASE res'.kind = "Ok" -> "value"
               [] res'.kind = "Err" -> "failed"
               [] OTHER -> "panicked"
    /\ op' = "decode"
    /\ UNCHANGED <<usize_bits, overflow_checks, buf, byte, src>>

\* isize::try_from(value)
DoIsizeTryFrom ==
    /\ pc = "value"
    /\ res' = IsizeTryFrom(val)
    /\ src' = [value |-> val, from |-> "narrowed"]
    /\ val' = NoValue
    /\ pc' = "done"
    /\ op' = "isize_try_from"
    /\ UNCHANGED <<usize_bits, overflow_checks, buf, byte>>

\* f64::try_from(value)
DoF64TryFrom ==
    /\ pc = "value"
    /\ res' = F64TryFrom(val)
    /\ src' = [value |-> val, from |-> "narrowed"]
    /\ val' = NoValue
    /\ pc' = "done"
    /\ op' = "f64_try_from"
    /\ UNCHANGED <<usize_bits, overflow_checks, buf, byte>>

\* opcode as u8
DoOpCodeAsU8 ==
    /\ pc = "opcode"
    /\ byte' = OpCodeAsU8(src.value)
    /\ pc' = "byte"
    /\ op' = "opcode_as_u8"
    /\ UNCHANGED <<usize_bits, overflow_checks, val, buf, src, res>>

\* type as u8
DoTypeAsU8 ==
    /\ pc = "type"
    /\ byte' = TypeAsU8(src.value)
    /\ pc' = "byte"
    /\ op' = "type_as_u8"
    /\ UNCHANGED <<usize_bits, overflow_checks, val, buf, src, res>>

\* OpCode::try_from(byte)
DoOpCodeTryFrom ==
    /\ pc = "byte"
    /\ res' = OpCodeTryFrom(byte)
    /\ pc' = "done"
    /\ op' = "opcode_try_from"
    /\ UNCHANGED <<usize_bits, overflow_checks, val, buf, byte, src>>

\* Type::try_from(byte)
DoTypeTryFrom ==
    /\ pc = "byte"
    /\ res' = TypeTryFrom(byte)
    /\ pc' = "done"
    /\ op' = "type_try_from"
    /\ UNCHANGED <<usize_bits, overflow_checks, val, buf, byte, src>>

Next ==
    \/ DoEncode
    \/ DoDecode
    \/ DoIsizeTryFrom
    \/ DoF64TryFrom
    \/ DoOpCodeAsU8
    \/ DoTypeAsU8
    \/ DoOpCodeTryFrom
    \/ DoTypeTryFrom

Spec == Init /\ [][Next]_vars

(***************************************************************************)
(* The properties.                                                         *)
(***************************************************************************)
\* the numeric tag the format assigns to each variant
SpecTag == [Int |-> 32, Float |-> 33, Bool |-> 34, Str |-> 35, Char |-> 36]

TypeBand == 32 .. 36

OpCodeBand == 16 .. 22

SameValue(a, b) == a.variant = b.variant /\ a.payload = b.payload

\* byte k (from 0) of the little-endian layout of a limb sequence
LeByte(w, k) == (w[(k \div 2) + 1] \div (IF k % 2 = 0 THEN 1 ELSE 256)) % 256

\* the u32 written little-endian in bytes 2..5 of a buffer, as a length
PrefixOf(b) == <<BNth(b, 2) + 256 * BNth(b, 3), BNth(b, 4) + 256 * BNth(b, 5), 0, 0>>

\* at least n bytes
AtLeast(b, n) == ~Less64(BLen(b), Nat64(n))

\* the text of a buffer is valid UTF-8 / holds a U+FFFD
ValidText(b) == ValidSeq(b.head) /\ ValidSeq(b.unit)

HoldsReplacement(b) ==
    \/ \E i \in 1 .. Len(b.head) : SubSeq(b.head, i, i + 2) = Replacement
    \/ b.reps # Zero64 /\ \E i \in 1 .. Len(b.unit) : SubSeq(b.unit, i, i + 2) = Replacement

\* C1: round-trip law: decoding the encoding of any valid input Value succeeds
\* and yields that Value again (Float by bit pattern).
C1_RoundTrip ==
    /\ (op = "encode" /\ src.from = "input") => res # Panic
    /\ (op = "decode" /\ src.from = "input") =>
         IsOk(res) /\ SameValue(res.value, src.value)

\* C2: tag totality: Type::try_from succeeds exactly on 0x20..=0x24 and
\* OpCode::try_from exactly on 0x10..=0x16; every other byte fails with the
\* invalid-type / invalid-opcode error carrying that byte.
C2_TagTotality ==
    /\ op = "type_try_from" =>
         IF byte \in TypeBand THEN IsOk(res) ELSE res = Err(InvalidType(byte))
    /\ op = "opcode_try_from" =>
         IF byte \in OpCodeBand THEN IsOk(res) ELSE res = Err(InvalidOpCode(byte))

C2_Witness ==
    op = "opcode_try_from" /\ byte = 23 /\ res = Err(InvalidOpCode(23))

\* the payload of a validly tagged buffer has the wrong size for its tag
SizeWrong(b) ==
    LET tag == BNth(b, 1)
        payload == Sub64(BLen(b), Nat64(1))
    IN  CASE tag = SpecTag.Int \/ tag = SpecTag.Float -> payload # Nat64(8)
          [] tag = SpecTag.Bool \/ tag = SpecTag.Char -> payload # Nat64(1)
          [] tag = SpecTag.Str ->
               \/ Less64(payload, Nat64(4))
               \/ PrefixOf(b) # Sub64(payload, Nat64(4))

\* C3: size enforcement: a validly tagged buffer is rejected with
\* IncompatibleSize exactly when its payload has the wrong size, and decodes
\* successfully otherwise.
C3_SizeEnforcement ==
    (op = "decode" /\ ~BIsEmpty(buf) /\ BNth(buf, 1) \in TypeBand) =>
        IF SizeWrong(buf) THEN res = Err(IncompatibleSize) ELSE IsOk(res)

\* C4: decode is total and never panics: it returns a Value or one of NoTag,
\* Type(InvalidType), IncompatibleSize, and NoTag for the empty buffer.
C4_DecodeTotal ==
    op = "decode" =>
        /\ res.kind \in {"Ok", "Err"}
        /\ IsErr(res) => res.error.e \in {"NoTag", "Type", "IncompatibleSize"}
        /\ BIsEmpty(buf) => res = Err(NoTag)

\* C5: invalid-type precedence: a non-empty buffer whose first byte is outside
\* 0x20..=0x24 fails with the invalid-type error carrying that byte, whatever
\* follows it.
C5_InvalidTypeFirst ==
    (op = "decode" /\ ~BIsEmpty(buf) /\ BNth(buf, 1) \notin TypeBand) =>
        res = Err(TypeErr(InvalidType(BNth(buf, 1))))

C5_Witness ==
    /\ op = "decode"
    /\ buf = Plain(<<255>>)
    /\ res = Err(TypeErr(InvalidType(255)))

\* C6: canonical layout: encode(v) is the tag of v's Type followed by exactly
\* the variant's payload; for Str a u32 prefix equal to the byte count of the
\* text, then those bytes, for every string length.
C6_CanonicalLayout ==
    op = "encode" =>
        LET v == src.value
        IN  /\ res # Panic
            /\ BNth(buf, 1) = SpecTag[v.variant]
            /\ CASE v.variant = "Int" ->
                      /\ BLen(buf) = Nat64(9)
                      /\ \A k \in 0 .. 7 :
                           BNth(buf, k + 2) = LeByte(SignExtend(v.payload, 4), k)
                 [] v.variant = "Float" ->
                      /\ BLen(buf) = Nat64(9)
                      /\ \A k \in 0 .. 7 : BNth(buf, k + 2) = LeByte(v.payload, k)
                 [] v.variant = "Bool" ->
                      buf = Plain(<<SpecTag.Bool, IF v.payload THEN 1 ELSE 0>>)
                 [] v.variant = "Char" ->
                      BLen(buf) = Nat64(2)
                 [] v.variant = "Str" ->
                      /\ BLen(buf) = Add64(Nat64(5), BLen(v.payload))
                      /\ PrefixOf(buf) = BLen(v.payload)
                      /\ BDrop(buf, 5) = v.payload

\* C7: narrowing extraction: isize::try_from succeeds with the payload exactly
\* on an Int and f64::try_from exactly on a Float; otherwise InvalidConversion
\* from the actual Type to the requested one.
C7_Narrowing ==
    /\ op = "isize_try_from" =>
         IF src.value.variant = "Int" THEN res = Ok(src.value.payload)
         ELSE res = Err(InvalidConversion(src.value.variant, "Int"))
    /\ op = "f64_try_from" =>
         IF src.value.variant = "Float" THEN res = Ok(src.value.payload)
         ELSE res = Err(InvalidConversion(src.value.variant, "Float"))

C7_Witness ==
    /\ op = "isize_try_from"
    /\ src.value.variant = "Str"
    /\ res = Err(InvalidConversion("Str", "Int"))

\* the buffer is the Str tag, a u32 prefix N and exactly N further bytes
WellFramedStr(b) ==
    /\ AtLeast(b, 5)
    /\ BNth(b, 1) = SpecTag.Str
    /\ PrefixOf(b) = Sub64(BLen(b), Nat64(5))

\* C8: lossy string decode: a well framed Str buffer always decodes to a Str;
\* a valid UTF-8 payload comes back unchanged, an invalid one as valid text
\* holding the replacement character.
C8_LossyStr ==
    (op = "decode" /\ WellFramedStr(buf)) =>
        /\ IsOk(res)
        /\ res.value.variant = "Str"
        /\ LET p == BDrop(buf, 5)
               r == res.value.payload
           IN  IF ValidText(p) THEN r = p
               ELSE ValidText(r) /\ HoldsReplacement(r)

C8_Witness ==
    /\ op = "decode"
    /\ buf = Plain(<<35, 2, 0, 0, 0, 195, 65>>)
    /\ res = Ok(StrV(Plain(Replacement \o <<65>>)))

\* C9: tag projection is lossless and the bands are disjoint: try_from of the
\* tag of an OpCode or Type returns it, the twelve tags are pairwise distinct
\* and no byte is accepted by both registries.
C9_TagsLossless ==
    /\ (op = "opcode_try_from" /\ src.from = "opcode") => res = Ok(src.value)
    /\ (op = "type_try_from" /\ src.from = "type") => res = Ok(src.value)
    /\ (op = "opcode_try_from" /\ src.from = "type") => IsErr(res)
    /\ (op = "type_try_from" /\ src.from = "opcode") => IsErr(res)
    /\ op = "opcode_as_u8" =>
         /\ \A o \in OpCode \ {src.value} : OpCodeAsU8(o) # byte
         /\ \A t \in Type : TypeAsU8(t) # byte
    /\ op = "type_as_u8" =>
         /\ \A t \in Type \ {src.value} : TypeAsU8(t) # byte
         /\ \A o \in OpCode : OpCodeAsU8(o) # byte
    /\ pc = "byte" => ~(IsOk(OpCodeTryFrom(byte)) /\ IsOk(TypeTryFrom(byte)))

C9_Witness ==
    /\ op = "opcode_try_from"
    /\ src.from = "opcode"
    /\ src.value = "Subtract"
    /\ res = Ok("Subtract")

\* C10: decode output is canonical under re-encoding: a Value that decode
\* produced encodes to a buffer that decodes to that Value again.
C10_DecodeCanonical ==
    /\ (op = "encode" /\ src.from = "decoded") => res # Panic
    /\ (op = "decode" /\ src.from = "decoded") =>
         IsOk(res) /\ SameValue(res.value, src.value)

====
